---- MODULE Spec2Model ----
(***************************************************************************)
(* Model of tt_media_player.py: an interactive command loop that resolves  *)
(* a text query to an audio stream URL (disk-cached search, format         *)
(* extraction, direct yt-dlp fallback) and loads it into one mpv player.   *)
(*                                                                         *)
(* The model starts after the module-level construction of lines 19-38    *)
(* (line 30 passes the name `yes', which the file never defines; the       *)
(* player is taken as built with the options listed).  The loop of lines   *)
(* 194-258 is modelled step by step, one action per collaborator call,     *)
(* with `pc' the position of the loop.                                     *)
(***************************************************************************)
EXTENDS Integers, Sequences, FiniteSets, TLC

VARIABLES
    pc,              \* position of the command loop
    q,               \* the stripped input line of the current iteration
    fast_mode,       \* line 192
    cache,           \* the files search_<key>.pkl of CACHE_DIR, by key
    now,             \* time.time()
    player,          \* the mpv player: alive flag and the loaded stream
    executor,        \* the ThreadPoolExecutor of line 38
    search_results,  \* local of youtube_search_first_fast
    url,             \* the (url, title) pair play_youtube / the handler got
    title,
    live,            \* how the live search of cached_search ended for this query
    extract,         \* how extract_audio_url_async ended for this query
    info,            \* the info dict of extract_audio_url_async
    video_id,        \* the chosen candidate
    fbLog,           \* outcomes of youtube_search_first_original, this line
    cleared,         \* keys whose file the last completed clear removed
    out              \* the last message printed

vars == <<pc, q, fast_mode, cache, now, player, executor,
          search_results, url, title, live, extract, info, video_id, fbLog,
          cleared, out>>

----------------------------------------------------------------------------
(* Bounds *)

MaxTime == 3601
MaxFormats == 2

(* Program constants *)

TTL == 3600
MaxWorkers == 3
InitialVolume == 60

----------------------------------------------------------------------------
(* Text.  A line is a sequence of characters; str.lower() maps each.       *)

LowerChar(c) ==
    CASE c = "L" -> "l"
      [] c = "O" -> "o"
      [] c = "J" -> "j"
      [] c = "C" -> "c"
      [] c = "F" -> "f"
      [] c = "E" -> "e"
      [] c = "V" -> "v"
      [] c = "P" -> "p"
      [] OTHER -> c

Lower(s) == [i \in DOMAIN s |-> LowerChar(s[i])]

StartsWith(s, p) == Len(s) >= Len(p) /\ SubSeq(s, 1, Len(p)) = p

\* the Python test `sub in s' on strings
Contains(s, sub) ==
    \E i \in 1..(Len(s) - Len(sub) + 1) : SubSeq(s, i, i + Len(sub) - 1) = sub

Queries == { <<"L", "o">>, <<"l", "o">>, <<"j">> }

CacheLine == <<"/", "c", "a", "c", "h", "e">>
FastLine  == <<"/", "f", "a", "s", "t">>
ExitLine  == <<"/", "e", "x", "i", "t">>
QuitLine  == <<"/", "q", "u", "i", "t">>

HelpLine  == <<"/", "h", "e", "l", "p">>
PauseLine == <<"/", "p", "a", "u", "s", "e">>
StopLine  == <<"/", "s", "t", "o", "p">>

\* cmd.startswith('/volume ')
VolumePrefix == <<"/", "v", "o", "l", "u", "m", "e", " ">>

\* the /volume lines typed: a value above the range, the top of the range,
\* a negative value, a word
VolumeLines == { VolumePrefix \o <<"1", "5", "0">>,
                 VolumePrefix \o <<"1", "0", "0">>,
                 VolumePrefix \o <<"-", "1">>,
                 VolumePrefix \o <<"u", "p">> }

CommandLines == { CacheLine, FastLine, ExitLine, <<"/", "x">>, HelpLine, StopLine }

\* str.split(): the maximal runs of non-blank characters, in order
RECURSIVE SplitFrom(_, _, _)
SplitFrom(s, i, word) ==
    IF i > Len(s) THEN (IF word = << >> THEN << >> ELSE <<word>>)
    ELSE IF s[i] = " "
         THEN (IF word = << >> THEN << >> ELSE <<word>>) \o SplitFrom(s, i + 1, << >>)
         ELSE SplitFrom(s, i + 1, Append(word, s[i]))

Split(s) == SplitFrom(s, 1, << >>)

Digits == <<"0", "1", "2", "3", "4", "5", "6", "7", "8", "9">>

IsDigit(c) == \E d \in 1..10 : Digits[d] = c

DigitValue(c) == (CHOOSE d \in 1..10 : Digits[d] = c) - 1

RECURSIVE Decimal(_)
Decimal(ds) ==
    IF ds = << >> THEN 0
    ELSE 10 * Decimal(SubSeq(ds, 1, Len(ds) - 1)) + DigitValue(ds[Len(ds)])

Unsigned(w) == IF w # << >> /\ w[1] \in {"+", "-"} THEN Tail(w) ELSE w

\* int(w) succeeds: an optional sign and at least one digit
IsInt(w) == Unsigned(w) # << >> /\ \A i \in DOMAIN Unsigned(w) : IsDigit(Unsigned(w)[i])

\* int(w) when it succeeds
IntOf(w) == IF w[1] = "-" THEN 0 - Decimal(Unsigned(w)) ELSE Decimal(Unsigned(w))

Lines == Queries \cup CommandLines

\* the lines typed in a session at the player's controls: every command, and
\* one query
ControlLines == { <<"j">>, <<"/", "P", "a", "u", "s", "e">> }
                \cup CommandLines \cup VolumeLines

NoLine == << >>

----------------------------------------------------------------------------
(* Cache keys and cache entries *)

\* hashlib.md5(...).hexdigest(): a digest, taken to be collision-free
Md5(s) == [md5 |-> s]

get_cache_key_raw(query) == Md5(query)

get_cache_key(query) == Md5(Lower(query))

Keys == { get_cache_key(x) : x \in Queries }

Videos == { "v1", "v2" }

Candidate(v) == [video_id |-> v, title |-> <<"title", v>>]

\* what search(query, max_results=3) may return
ResultSets == { << >>, <<Candidate("v1"), Candidate("v2")>> }

Absent  == [kind |-> "absent",  timestamp |-> 0, results |-> << >>, by |-> NoLine]
Corrupt == [kind |-> "corrupt", timestamp |-> 0, results |-> << >>, by |-> NoLine]
Entry(t, r, query) == [kind |-> "valid", timestamp |-> t, results |-> r, by |-> query]

FreshForever(e, t) == e.kind = "valid"

\* line 54: time.time() - cached['timestamp'] < 3600
Fresh(e, t) == e.kind = "valid" /\ t - e.timestamp < TTL

None == [ok |-> FALSE, items |-> << >>]
Some(r) == [ok |-> TRUE, items |-> r]

\* Python truthiness of `if search_results:'
Truthy(sr) == sr.ok /\ sr.items # << >>

----------------------------------------------------------------------------
(* Stream URLs *)

NoUrl == [kind |-> "none", video |-> "", query |-> NoLine, idx |-> 0]
FmtUrl(v, i) == [kind |-> "fmt", video |-> v, query |-> NoLine, idx |-> i]
InfoUrl(v) == [kind |-> "info", video |-> v, query |-> NoLine, idx |-> 0]
\* f"https://youtu.be/{video_id}"
PageUrl(v) == [kind |-> "page", video |-> v, query |-> NoLine, idx |-> 0]
\* video["url"], video["title"] of the first entry yt-dlp finds for `query'
DirectUrl(query) == [kind |-> "direct", video |-> "", query |-> query, idx |-> 0]
DirectTitle(query) == <<"first hit", query>>

NoTitle == << >>

----------------------------------------------------------------------------
(* extract_audio_url_async: the info dict and the choice of a format *)

Opus      == <<"o", "p", "u", "s">>
Mp4a      == <<"m", "p", "4", "a">>
NoneCodec == <<"n", "o", "n", "e">>
PyNone    == <<"<None>">>
EmptyStr  == << >>

\* a format whose dict has no 'acodec' key has has_acodec = FALSE
CodecChoices == { [has_acodec |-> TRUE,  acodec |-> Opus],
                  [has_acodec |-> TRUE,  acodec |-> Mp4a],
                  [has_acodec |-> TRUE,  acodec |-> NoneCodec],
                  [has_acodec |-> FALSE, acodec |-> EmptyStr] }

FormatsOf(cs, v) ==
    [i \in DOMAIN cs |->
        [has_acodec |-> cs[i].has_acodec, acodec |-> cs[i].acodec, url |-> FmtUrl(v, i)]]

CodecLists == UNION { [1..n -> CodecChoices] : n \in 0..MaxFormats }

\* what ydl.extract_info may hand back for video v (raised: it threw)
InfosOf(v) ==
    { [raised |-> FALSE, formats |-> FormatsOf(cs, v), hasUrl |-> h] :
        cs \in CodecLists, h \in BOOLEAN }
    \cup { [raised |-> TRUE, formats |-> << >>, hasUrl |-> FALSE] }

NoInfo == [raised |-> FALSE, formats |-> << >>, hasUrl |-> FALSE]

\* f.get('acodec', default)
GetAcodec(f, default) == IF f.has_acodec THEN f.acodec ELSE default

\* line 113
AudioFormats(formats) == SelectSeq(formats, LAMBDA f : GetAcodec(f, PyNone) # NoneCodec)

\* lines 116-118: the index of the first format the loop returns from, 0 if none
RECURSIVE FirstOpusFrom(_, _)
FirstOpusFrom(fs, k) ==
    IF k > Len(fs) THEN 0
    ELSE IF Contains(GetAcodec(fs[k], EmptyStr), Opus) THEN k
    ELSE FirstOpusFrom(fs, k + 1)

extract_audio_url_no_preference(i, v) ==
    IF i.raised THEN PageUrl(v)
    ELSE LET audio_formats == AudioFormats(i.formats)
         IN  IF audio_formats # << >> THEN audio_formats[1].url
             ELSE IF i.hasUrl THEN InfoUrl(v)
             ELSE PageUrl(v)

extract_audio_url_async(i, v) ==
    IF i.raised THEN PageUrl(v)
    ELSE LET audio_formats == AudioFormats(i.formats)
             k == FirstOpusFrom(audio_formats, 1)
         IN  IF k # 0 THEN audio_formats[k].url
             ELSE IF audio_formats # << >> THEN audio_formats[1].url
             ELSE IF i.hasUrl THEN InfoUrl(v)      \* info['url']
             ELSE PageUrl(v)                       \* KeyError, line 125

----------------------------------------------------------------------------
(* The player and the worker pool *)

LoadFileKeep(p, u) == IF p.loaded = NoUrl THEN [p EXCEPT !.loaded = u] ELSE p

\* player.command("loadfile", url, "replace")
LoadFile(p, u) == [p EXCEPT !.loaded = u]

TerminateLeaveRunning(p) == p

\* player.terminate()
Terminate(p) == [p EXCEPT !.alive = FALSE]

Shutdown(e) == [e EXCEPT !.shutdown = TRUE]

----------------------------------------------------------------------------
(* Initial state: lines 19-38 and 192, with an empty cache directory *)

Init ==
    /\ pc = "prompt"
    /\ q = NoLine
    /\ fast_mode = TRUE
    /\ cache = [k \in Keys |-> Absent]
    /\ now = 0
    /\ player = [alive |-> TRUE, loaded |-> NoUrl, volume |-> InitialVolume, pause |-> FALSE]
    /\ executor = [max_workers |-> MaxWorkers, submitted |-> 0, shutdown |-> FALSE]
    /\ search_results = None
    /\ url = NoUrl
    /\ title = NoTitle
    /\ live = "none"
    /\ extract = "none"
    /\ info = NoInfo
    /\ video_id = ""
    /\ fbLog = << >>
    /\ cleared = {}
    /\ out = "banner"

\* the clock; the steps are chosen around the lifetime of an entry
TickSteps == { TTL - 1, TTL, TTL + 1 }

Tick ==
    /\ pc # "exited"
    /\ \E d \in TickSteps :
         /\ now + d <= MaxTime
         /\ now' = now + d
    /\ UNCHANGED <<pc, q, fast_mode, cache, player, executor,
                   search_results, url, title, live, extract, info, video_id, fbLog,
                   cleared, out>>

----------------------------------------------------------------------------
(* The command loop, lines 194-258 *)

\* the locals of play_youtube and of the handler end with the iteration
Return ==
    /\ search_results' = None
    /\ url' = NoUrl
    /\ title' = NoTitle
    /\ live' = "none"
    /\ extract' = "none"
    /\ video_id' = ""
    /\ fbLog' = << >>

\* an exception leaving play_youtube ends its locals
Raise ==
    /\ search_results' = None
    /\ url' = NoUrl
    /\ title' = NoTitle
    /\ live' = "none"
    /\ extract' = "none"
    /\ video_id' = ""

IsCommand(line) == StartsWith(line, <<"/">>)

DispatchAlwaysCached(line) ==
    /\ q' = line
    /\ pc' = IF IsCommand(line) THEN "command" ELSE "lookup"
    /\ out' = "prompt"
    /\ UNCHANGED <<fast_mode, cache, now, player, executor, info, cleared,
                   search_results, url, title, live, extract, video_id, fbLog>>

\* lines 196-203 and 240-242 with 149-152: the branch a line takes
Dispatch(line) ==
    /\ q' = line
    /\ pc' = IF IsCommand(line) THEN "command"
             ELSE IF fast_mode THEN "lookup"
             ELSE "fallback"
    /\ out' = "prompt"
    /\ UNCHANGED <<fast_mode, cache, now, player, executor, info, cleared,
                   search_results, url, title, live, extract, video_id, fbLog>>

\* line 196: the line read at the prompt
ReadInput ==
    /\ pc = "prompt"
    /\ \E line \in Lines : Dispatch(line)

\* the same read in a session at the controls
ReadControl ==
    /\ pc = "prompt"
    /\ \E line \in ControlLines : Dispatch(line)

\* lines 205-208
CmdExit ==
    /\ pc = "command"
    /\ Lower(q) \in { ExitLine, QuitLine }
    /\ player' = Terminate(player)
    /\ executor' = Shutdown(executor)
    /\ pc' = "exited"
    /\ UNCHANGED <<q, fast_mode, cache, now, search_results, url, title,
                   live, extract, info, video_id, fbLog, cleared, out>>

\* where a KeyboardInterrupt reaches the handler of line 244: while input()
\* waits, while youtube_search_first_original runs inside play_youtube, while
\* the player loads.  Inside cached_search, extract_audio_url_async and the
\* try of lines 252-258 the bare `except:' takes it as any other failure, which
\* is the failure outcome of LiveSearch, Extract, RetryFallback and RetryLoad.
InterruptiblePcs == { "prompt", "fallback", "load" }

\* lines 244-248
Interrupt ==
    /\ pc \in InterruptiblePcs
    /\ player' = Terminate(player)
    /\ executor' = Shutdown(executor)
    /\ out' = "exiting"
    /\ pc' = "exited"
    /\ Return
    /\ UNCHANGED <<q, fast_mode, cache, now, info, cleared>>

Present(c) == { k \in Keys : c[k].kind # "absent" }

\* clear_cache leaving the files of `keep' in place
RemoveAllBut(c, keep) == [k \in Keys |-> IF k \in keep THEN c[k] ELSE Absent]

clear_cache_stale_only(c, t) == [k \in Keys |-> IF Fresh(c[k], t) THEN c[k] ELSE Absent]

\* lines 171-173 when every os.remove succeeds
clear_cache(c, t) == RemoveAllBut(c, {})

\* lines 213-214 with 169-174
CmdCache ==
    /\ pc = "command"
    /\ Lower(q) = CacheLine
    /\ \/ /\ cache' = clear_cache(cache, now)
          /\ cleared' = Present(cache)
          /\ out' = "cache cleared"
          /\ pc' = "prompt"
       \/ \* an os.remove raises: the files not yet reached stay
          \E keep \in SUBSET Present(cache) :
             /\ keep # {}
             /\ cache' = RemoveAllBut(cache, keep)
             /\ cleared' = cleared
             /\ out' = out
             /\ pc' = "except"
    /\ UNCHANGED <<q, fast_mode, now, player, executor,
                   search_results, url, title, live, extract, info, video_id, fbLog>>

\* lines 216-218
CmdFast ==
    /\ pc = "command"
    /\ Lower(q) = FastLine
    /\ fast_mode' = ~fast_mode
    /\ out' = IF fast_mode' THEN "fast on" ELSE "fast off"
    /\ pc' = "prompt"
    /\ UNCHANGED <<q, cache, now, player, executor,
                   search_results, url, title, live, extract, info, video_id, fbLog, cleared>>

\* lines 210-211: show_help prints the command list
CmdHelp ==
    /\ pc = "command"
    /\ Lower(q) = HelpLine
    /\ out' = "help"
    /\ pc' = "prompt"
    /\ UNCHANGED <<q, fast_mode, cache, now, player, executor,
                   search_results, url, title, live, extract, info, video_id, fbLog, cleared>>

\* line 223: 0 <= vol <= 100
MinVolume == 0
MaxVolume == 100

InRange(vol) == MinVolume <= vol /\ vol <= MaxVolume

SetVolumeUnchecked(p, vol) == [p EXCEPT !.volume = vol]

\* lines 223-224: the property is written only for a value in the range
SetVolume(p, vol) == IF InRange(vol) THEN [p EXCEPT !.volume = vol] ELSE p

\* lines 220-227
CmdVolume ==
    /\ pc = "command"
    /\ StartsWith(Lower(q), VolumePrefix)
    /\ LET word == Split(Lower(q))[2]
       IN  IF IsInt(word)
           THEN \/ /\ player' = SetVolume(player, IntOf(word))
                   /\ out' = IF InRange(IntOf(word)) THEN "volume set" ELSE out
                \/ \* the write of player.volume raises inside the try
                   /\ InRange(IntOf(word))
                   /\ player' = player
                   /\ out' = "use: /volume 0-100"
           ELSE \* int() raises
                /\ player' = player
                /\ out' = "use: /volume 0-100"
    /\ pc' = "prompt"
    /\ UNCHANGED <<q, fast_mode, cache, now, executor,
                   search_results, url, title, live, extract, info, video_id, fbLog, cleared>>

\* lines 229-231
CmdPause ==
    /\ pc = "command"
    /\ Lower(q) = PauseLine
    /\ \/ /\ player' = [player EXCEPT !.pause = ~player.pause]
          /\ out' = IF player'.pause THEN "paused" ELSE "resumed"
          /\ pc' = "prompt"
       \/ \* the player refuses the property
          /\ pc' = "except"
          /\ UNCHANGED <<player, out>>
    /\ UNCHANGED <<q, fast_mode, cache, now, executor,
                   search_results, url, title, live, extract, info, video_id, fbLog, cleared>>

\* player.command("stop"): playback ends and nothing stays loaded
StopPlayback(p) == [p EXCEPT !.loaded = NoUrl]

\* lines 233-235
CmdStop ==
    /\ pc = "command"
    /\ Lower(q) = StopLine
    /\ \/ /\ player' = StopPlayback(player)
          /\ out' = "stopped"
          /\ pc' = "prompt"
       \/ \* the player refuses the command
          /\ pc' = "except"
          /\ UNCHANGED <<player, out>>
    /\ UNCHANGED <<q, fast_mode, cache, now, executor,
                   search_results, url, title, live, extract, info, video_id, fbLog, cleared>>

KnownCommands == { ExitLine, QuitLine, HelpLine, CacheLine, FastLine, PauseLine, StopLine }

\* lines 237-238
CmdUnknown ==
    /\ pc = "command"
    /\ Lower(q) \notin KnownCommands
    /\ ~StartsWith(Lower(q), VolumePrefix)
    /\ out' = "unknown command"
    /\ pc' = "prompt"
    /\ UNCHANGED <<q, fast_mode, cache, now, player, executor,
                   search_results, url, title, live, extract, info, video_id, fbLog, cleared>>

----------------------------------------------------------------------------
(* cached_search, lines 44-75 *)

CacheGetFirstOnly(c, k, t) ==
    IF Fresh(c[k], t) /\ c[k].results # << >> THEN Some(<<c[k].results[1]>>) ELSE None

\* lines 50-57: the results a readable, unexpired file yields, else None
CacheGet(c, k, t) == IF Fresh(c[k], t) THEN Some(c[k].results) ELSE None

CacheLookupUnguarded ==
    /\ pc = "lookup"
    /\ LET cached == CacheGet(cache, get_cache_key(q), now)
       IN  /\ search_results' = cached
           /\ pc' = IF cache[get_cache_key(q)].kind = "corrupt" THEN "except"
                    ELSE IF cached.ok THEN "choose" ELSE "search"
    /\ UNCHANGED <<q, fast_mode, cache, now, player, executor,
                   url, title, live, extract, info, video_id, fbLog, cleared, out>>

\* lines 47-57
CacheLookup ==
    /\ pc = "lookup"
    /\ LET cached == CacheGet(cache, get_cache_key(q), now)
       IN  /\ search_results' = cached
           /\ pc' = IF cached.ok THEN "choose" ELSE "search"
    /\ UNCHANGED <<q, fast_mode, cache, now, player, executor,
                   url, title, live, extract, info, video_id, fbLog, cleared, out>>

CachePutNonEmpty(c, k, t, r, query) ==
    IF r = << >> THEN c ELSE [c EXCEPT ![k] = Entry(t, r, query)]

\* lines 65-70: pickle.dump of {'timestamp', 'results'} into the key's file
CachePut(c, k, t, r, query) == [c EXCEPT ![k] = Entry(t, r, query)]

\* lines 60-75: the live search and the write of its result
LiveSearch ==
    /\ pc = "search"
    /\ LET k == get_cache_key(q)
       IN  \/ \* search() raises
              /\ search_results' = None
              /\ live' = "raised"
              /\ UNCHANGED <<cache, cleared>>
           \/ \E r \in ResultSets :
                \/ /\ cache' = CachePut(cache, k, now, r, q)
                   /\ cleared' = cleared \ {k}
                   /\ search_results' = Some(r)
                   /\ live' = "stored"
                \/ \* open(cache_file, 'wb') raises
                   /\ search_results' = None
                   /\ live' = "write failed"
                   /\ UNCHANGED <<cache, cleared>>
                \/ \* pickle.dump raises after the file was truncated
                   /\ cache' = [cache EXCEPT ![k] = Corrupt]
                   /\ cleared' = cleared \ {k}
                   /\ search_results' = None
                   /\ live' = "write failed"
    /\ pc' = "choose"
    /\ UNCHANGED <<q, fast_mode, now, player, executor,
                   url, title, extract, info, video_id, fbLog, out>>

----------------------------------------------------------------------------
(* youtube_search_first_fast, lines 77-92 *)

ChooseWithoutWaiting ==
    /\ pc = "choose"
    /\ IF Truthy(search_results)
       THEN /\ video_id' = search_results.items[1].video_id
            /\ title' = search_results.items[1].title
            /\ pc' = "load"
       ELSE /\ UNCHANGED <<video_id, title>>
            /\ pc' = "fallback"
    /\ UNCHANGED <<q, fast_mode, cache, now, player, executor,
                   search_results, url, live, extract, info, fbLog, cleared, out>>

\* lines 82-92: take the first candidate, or go to the original search
Choose ==
    /\ pc = "choose"
    /\ IF Truthy(search_results)
       THEN /\ video_id' = search_results.items[1].video_id
            /\ title' = search_results.items[1].title
            /\ pc' = "extract"
       ELSE /\ UNCHANGED <<video_id, title>>
            /\ pc' = "fallback"
    /\ UNCHANGED <<q, fast_mode, cache, now, player, executor,
                   search_results, url, live, extract, info, fbLog, cleared, out>>

\* no audio-capable format and no info['url']
NoUsableFormat(i) ==
    /\ \A n \in DOMAIN i.formats : i.formats[n].has_acodec /\ i.formats[n].acodec = NoneCodec
    /\ ~i.hasUrl

ExtractStatus(i) ==
    IF i.raised THEN "raised" ELSE IF NoUsableFormat(i) THEN "no format" ELSE "ok"

\* line 88: extract_audio_url_async runs in the caller, lines 94-126
Extract ==
    /\ pc = "extract"
    /\ \E i \in InfosOf(video_id) :
         /\ url' = extract_audio_url_async(i, video_id)
         /\ extract' = ExtractStatus(i)
    /\ pc' = "load"
    /\ UNCHANGED <<q, fast_mode, cache, now, player, executor,
                   search_results, title, live, info, video_id, fbLog, cleared, out>>

----------------------------------------------------------------------------
(* youtube_search_first_original, lines 129-143, called from lines 92, 152 *)

FallbackNormalized ==
    /\ pc = "fallback"
    /\ \/ /\ url' = DirectUrl(Lower(q))
          /\ title' = DirectTitle(Lower(q))
          /\ fbLog' = Append(fbLog, "ok")
          /\ pc' = "load"
          /\ UNCHANGED <<search_results, live, extract, video_id>>
       \/ /\ fbLog' = Append(fbLog, "fail")
          /\ pc' = "except"
          /\ Raise
    /\ UNCHANGED <<q, fast_mode, cache, now, player, executor,
                   info, cleared, out>>

Fallback ==
    /\ pc = "fallback"
    /\ \/ /\ url' = DirectUrl(q)
          /\ title' = DirectTitle(q)
          /\ fbLog' = Append(fbLog, "ok")
          /\ pc' = "load"
          /\ UNCHANGED <<search_results, live, extract, video_id>>
       \/ \* extract_info raises, or there is no entry
          /\ fbLog' = Append(fbLog, "fail")
          /\ pc' = "except"
          /\ Raise
    /\ UNCHANGED <<q, fast_mode, cache, now, player, executor,
                   info, cleared, out>>

----------------------------------------------------------------------------
(* play_youtube, lines 154-167.  The detached status_monitor thread of     *)
(* lines 162-167 only reads player.duration and player.volume and prints:  *)
(* it changes nothing of the state below.                                  *)

LoadFailureIgnored ==
    /\ pc = "load"
    /\ out' = "playing"
    /\ \/ player' = LoadFile(player, url)
       \/ UNCHANGED player
    /\ pc' = "prompt"
    /\ Return
    /\ UNCHANGED <<q, fast_mode, cache, now, executor, info, cleared>>

\* lines 154-156
Load ==
    /\ pc = "load"
    /\ out' = "playing"
    /\ \/ /\ player' = LoadFile(player, url)
          /\ pc' = "prompt"
          /\ Return
       \/ \* player.command raises
          /\ pc' = "except"
          /\ Raise
          /\ UNCHANGED <<player, fbLog>>
    /\ UNCHANGED <<q, fast_mode, cache, now, executor, info, cleared>>

----------------------------------------------------------------------------
(* The handler of the loop, lines 250-258 *)

RetryFallbackAgain ==
    /\ pc = "except"
    /\ \/ /\ url' = DirectUrl(q)
          /\ title' = DirectTitle(q)
          /\ fbLog' = Append(fbLog, "ok")
          /\ out' = "error"
          /\ pc' = "retryload"
       \/ /\ fbLog' = Append(fbLog, "fail")
          /\ out' = "error"
          /\ pc' = "except"
          /\ UNCHANGED <<url, title>>
    /\ UNCHANGED <<q, fast_mode, cache, now, player, executor,
                   search_results, live, extract, video_id, info, cleared>>

\* lines 251-254, and 257-258 when the search raises
RetryFallback ==
    /\ pc = "except"
    /\ \/ /\ url' = DirectUrl(q)
          /\ title' = DirectTitle(q)
          /\ fbLog' = Append(fbLog, "ok")
          /\ out' = "error"
          /\ pc' = "retryload"
          /\ UNCHANGED <<search_results, live, extract, video_id>>
       \/ /\ out' = "try another search"
          /\ pc' = "prompt"
          /\ Return
    /\ UNCHANGED <<q, fast_mode, cache, now, player, executor,
                   info, cleared>>

\* lines 255-258
RetryLoad ==
    /\ pc = "retryload"
    /\ \/ /\ player' = LoadFile(player, url)
          /\ out' = "playing (fallback)"
       \/ \* player.command raises
          /\ out' = "try another search"
          /\ UNCHANGED player
    /\ pc' = "prompt"
    /\ Return
    /\ UNCHANGED <<q, fast_mode, cache, now, executor, info, cleared>>

----------------------------------------------------------------------------

Next ==
    \/ Tick
    \/ ReadInput
    \/ CmdExit
    \/ Interrupt
    \/ CmdCache
    \/ CmdFast
    \/ CmdHelp
    \/ CmdStop
    \/ CmdUnknown
    \/ CacheLookup
    \/ LiveSearch
    \/ Choose
    \/ Extract
    \/ Fallback
    \/ Load
    \/ RetryFallback
    \/ RetryLoad

Spec == Init /\ [][Next]_vars

\* a session at the controls: the same loop reading ControlLines, the volume
\* and pause commands among them
NextControls ==
    \/ Tick
    \/ ReadControl
    \/ CmdExit
    \/ Interrupt
    \/ CmdCache
    \/ CmdFast
    \/ CmdHelp
    \/ CmdVolume
    \/ CmdPause
    \/ CmdStop
    \/ CmdUnknown
    \/ CacheLookup
    \/ LiveSearch
    \/ Choose
    \/ Extract
    \/ Fallback
    \/ Load
    \/ RetryFallback
    \/ RetryLoad

SpecControls == Init /\ [][NextControls]_vars

----------------------------------------------------------------------------
(* extract_audio_url_async on its own: every info dict within the bound *)

InitExtract ==
    /\ pc = "extract"
    /\ q = NoLine
    /\ fast_mode = TRUE
    /\ cache = [k \in Keys |-> Absent]
    /\ now = 0
    /\ player = [alive |-> TRUE, loaded |-> NoUrl, volume |-> InitialVolume, pause |-> FALSE]
    /\ executor = [max_workers |-> MaxWorkers, submitted |-> 0, shutdown |-> FALSE]
    /\ search_results = None
    /\ url = NoUrl
    /\ title = NoTitle
    /\ live = "none"
    /\ extract = "none"
    /\ video_id \in Videos
    /\ info \in InfosOf(video_id)
    /\ fbLog = << >>
    /\ cleared = {}
    /\ out = "banner"

ExtractInfo ==
    /\ pc = "extract"
    /\ url' = extract_audio_url_async(info, video_id)
    /\ extract' = ExtractStatus(info)
    /\ pc' = "load"
    /\ UNCHANGED <<q, fast_mode, cache, now, player, executor,
                   search_results, title, live, info, video_id, fbLog, cleared, out>>

NextExtract == ExtractInfo

SpecExtract == InitExtract /\ [][NextExtract]_vars

----------------------------------------------------------------------------
(* Properties *)

CurrentEntry == cache[get_cache_key(q)]

Age(e) == now - e.timestamp

\* the loop leaves its position in this step
Moves == pc' # pc

\* C1: queries with the same lowercased text share one cache key; the live
\* search of a query stores its result under that key, is entered only from
\* a lookup that missed, and a later query of the same lowercased text that
\* finds the entry younger than the TTL is served from it with no live search.
C1_SameTextSameEntry ==
    [][ /\ \A q1, q2 \in Queries :
             Lower(q1) = Lower(q2) => get_cache_key(q1) = get_cache_key(q2)
        /\ (pc = "search" /\ search_results'.ok) =>
             \A q2 \in Queries :
                Lower(q2) = Lower(q) =>
                   cache'[get_cache_key(q2)] = Entry(now, search_results'.items, q)
        /\ (pc' = "search" /\ Moves) => (pc = "lookup" /\ ~search_results'.ok)
        /\ (pc = "lookup" /\ Moves) =>
             \A q1 \in Queries :
                LET e == cache[get_cache_key(q1)]
                IN  (Lower(q1) = Lower(q) /\ e.kind = "valid" /\ Age(e) < TTL) =>
                       /\ pc' = "choose"
                       /\ search_results' = Some(e.results)
                       /\ cache' = cache
      ]_vars

\* a query served from the entry another spelling of the same text stored
C1_Witness ==
    /\ pc = "choose"
    /\ live = "none"
    /\ CurrentEntry.kind = "valid"
    /\ CurrentEntry.by # q
    /\ Lower(CurrentEntry.by) = Lower(q)
    /\ search_results = Some(CurrentEntry.results)

\* C2 as stated: a lookup at any t with t - storedAt <= TTL, the boundary
\* included, returns exactly the stored payload.
C2_BoundaryIncluded ==
    [][ (pc = "lookup" /\ Moves /\ CurrentEntry.kind = "valid"
            /\ Age(CurrentEntry) >= 0 /\ Age(CurrentEntry) <= TTL) =>
          search_results' = Some(CurrentEntry.results)
      ]_vars

\* C2 amended: the write stores the payload with storedAt = now, and a lookup
\* at any later t with t - storedAt < TTL returns exactly that payload.
C2_RoundTripBeforeTTL ==
    [][ /\ (pc = "search" /\ search_results'.ok) =>
             /\ cache'[get_cache_key(q)].kind = "valid"
             /\ cache'[get_cache_key(q)].timestamp = now
             /\ cache'[get_cache_key(q)].results = search_results'.items
        /\ (pc = "lookup" /\ Moves /\ CurrentEntry.kind = "valid"
               /\ Age(CurrentEntry) >= 0 /\ Age(CurrentEntry) < TTL) =>
             search_results' = Some(CurrentEntry.results)
      ]_vars

\* a two-candidate payload read back one second before it expires
C2_Witness ==
    /\ pc = "choose"
    /\ live = "none"
    /\ CurrentEntry.kind = "valid"
    /\ Age(CurrentEntry) = TTL - 1
    /\ Len(CurrentEntry.results) = 2
    /\ search_results = Some(CurrentEntry.results)

\* C3: a lookup that finds an entry older than the TTL returns nothing of it
\* and goes on to the live search, and leaves the file in place.
C3_LazyExpiry ==
    [][ (pc = "lookup" /\ Moves /\ CurrentEntry.kind = "valid"
            /\ Age(CurrentEntry) > TTL) =>
          /\ pc' = "search"
          /\ search_results' = None
          /\ cache' = cache
      ]_vars

\* the live search about to run with the expired file still there
C3_Witness ==
    /\ pc = "search"
    /\ CurrentEntry.kind = "valid"
    /\ Age(CurrentEntry) > TTL

\* C4: when /cache has completed, every file present before it is gone, and
\* until the key is stored again a lookup of it finds nothing and goes on to
\* the live search.
C4_ClearedNeverServed ==
    [][ /\ (pc = "command" /\ out' = "cache cleared") =>
             /\ cleared' = { k \in Keys : cache[k].kind # "absent" }
             /\ \A k \in Keys : cache'[k] = Absent
        /\ \A k \in cleared' : cache'[k] = Absent
        /\ (pc = "lookup" /\ Moves /\ get_cache_key(q) \in cleared) =>
             /\ pc' = "search"
             /\ search_results' = None
      ]_vars

\* an entry stored at time 0 and cleared at time 0, so still young, and the
\* next query of its key at the live search
C4_Witness ==
    /\ pc = "search"
    /\ now = 0
    /\ get_cache_key(q) \in cleared

\* C5: once the live search has raised in a fast-mode query, the query goes
\* to youtube_search_first_original with the same text, and when that
\* succeeds the url and title it returned are the ones play_youtube loads.
C5_SearchFailureFallsBack ==
    [][ /\ live = "raised" =>
             \/ pc = "choose" /\ ~Truthy(search_results)
             \/ pc = "fallback" /\ fbLog = << >>
             \/ /\ pc = "load"
                /\ fbLog = <<"ok">>
                /\ url = DirectUrl(q)
                /\ title = DirectTitle(q)
        /\ (live = "raised" /\ pc = "choose" /\ Moves) => (pc' = "fallback" /\ q' = q)
        /\ (live = "raised" /\ pc = "load" /\ pc' = "prompt") =>
             player'.loaded = DirectUrl(q)
      ]_vars

\* the fallback's result about to be loaded after the live search raised
C5_Witness ==
    /\ live = "raised"
    /\ pc = "load"
    /\ fast_mode
    /\ url = DirectUrl(q)
    /\ q = <<"L", "o">>

\* C6 as stated: when extraction raised or found no usable format, the url
\* handed to the player is the one youtube_search_first_original produced.
C6_ExtractionFailureFallsBack ==
    (pc = "load" /\ extract \in {"raised", "no format"}) =>
        (url = DirectUrl(q) /\ fbLog # << >>)

\* C7: extraction returns the url of the first audio-capable format whose
\* codec contains "opus"; failing that, of the first audio-capable format;
\* failing that, the info url when there is one.
AudioCapable(f) == ~(f.has_acodec /\ f.acodec = NoneCodec)

IsOpus(f) == AudioCapable(f) /\ f.has_acodec /\ Contains(f.acodec, Opus)

Least(S) == CHOOSE n \in S : \A m \in S : n <= m

C7_FormatSelection ==
    (pc = "load" /\ ~info.raised) =>
        LET fs == info.formats
            audio == { n \in DOMAIN fs : AudioCapable(fs[n]) }
            opus == { n \in DOMAIN fs : IsOpus(fs[n]) }
        IN  /\ opus # {} => url = fs[Least(opus)].url
            /\ (opus = {} /\ audio # {}) => url = fs[Least(audio)].url
            /\ (audio = {} /\ info.hasUrl) => url = InfoUrl(video_id)

\* an opus format chosen over an earlier audio-capable format
C7_Witness ==
    /\ pc = "load"
    /\ Len(info.formats) = 2
    /\ info.formats[1].acodec = Mp4a
    /\ info.formats[2].acodec = Opus
    /\ url = FmtUrl(video_id, 2)

\* C8: the loaded stream changes only in the loop's own load of the url it
\* resolved for the line it is handling, and that load replaces whatever
\* stream an earlier query left; nothing else ever puts a stream back.
UrlOfCurrentQuery ==
    \/ url.kind = "direct" /\ url.query = q
    \/ url.kind \in {"fmt", "info", "page"} /\ url.video = video_id
           /\ Truthy(search_results) /\ search_results.items[1].video_id = video_id

C8_LastQueryWins ==
    [][ /\ url # NoUrl => UrlOfCurrentQuery
        /\ player'.loaded # player.loaded =>
             \/ /\ pc \in {"load", "retryload"}
                /\ player'.loaded = url
             \/ /\ pc = "command"
                /\ player'.loaded = NoUrl
        /\ (pc = "load" /\ pc' = "prompt") => player'.loaded = url
      ]_vars

\* the second query resolved while the first query's stream is loaded
C8_Witness ==
    /\ pc = "load"
    /\ player.loaded.kind = "direct"
    /\ player.loaded.query # q
    /\ url # NoUrl
    /\ url # player.loaded

\* C9 as stated: the extraction of the chosen candidate is a job submitted to
\* the worker pool.
C9_ExtractionSubmittedToPool ==
    extract # "none" => executor.submitted > 0

\* C10 as stated: once youtube_search_first_original has failed for a line,
\* it is not called again for that line.
C10_NoAttemptAfterFailure ==
    \A n \in 1..(Len(fbLog) - 1) : fbLog[n] # "fail"

\* C10 amended: a failure of youtube_search_first_original inside
\* play_youtube is followed by exactly one more call, made by the handler of
\* the loop; when that call fails there is no further call for the line,
\* "try another search" is printed and the loop is back at the prompt with
\* the player alive.
C10_RetryOnceThenTerminal ==
    [][ /\ Len(fbLog) <= 2
        /\ (pc = "fallback" /\ Moves /\ pc' \notin {"load", "exited"}) =>
             (pc' = "except" /\ fbLog' = <<"fail">>)
        /\ (pc = "except" /\ Moves) =>
             \/ pc' = "retryload" /\ fbLog' = Append(fbLog, "ok") /\ Len(fbLog') <= 2
             \/ /\ pc' = "prompt"
                /\ out' = "try another search"
                /\ fbLog' = << >>
                /\ player'.alive
                /\ player'.loaded = player.loaded
        /\ pc' = "fallback" => (pc \in {"prompt", "choose", "fallback"} /\ fbLog' = << >>)
        /\ pc' = "except" => pc \in {"fallback", "load", "command", "except"}
      ]_vars

\* the handler about to make its one retry after the first call failed
C10_Witness ==
    /\ pc = "except"
    /\ fbLog = <<"fail">>
    /\ ~IsCommand(q)

\* C11: a cache file that is there but cannot be read (corrupt, or without its
\* timestamp or results) is treated as no file: the lookup raises nothing, the
\* query goes on to the live search with nothing in hand as it does on a miss,
\* and the live search replaces the file as it would create it.
C11_UnreadableEntryIsAMiss ==
    [][ /\ (pc = "lookup" /\ Moves /\ CurrentEntry.kind \in {"corrupt", "absent"}) =>
             /\ pc' = "search"
             /\ search_results' = None
             /\ cache' = cache
             /\ out' = out
             /\ player' = player
        /\ (pc = "search" /\ CurrentEntry.kind \in {"corrupt", "absent"}
                           /\ search_results'.ok) =>
             cache'[get_cache_key(q)] = Entry(now, search_results'.items, q)
      ]_vars

\* the live search about to run over an unreadable file
C11_Witness ==
    /\ pc = "search"
    /\ CurrentEntry.kind = "corrupt"
    /\ search_results = None

\* C12 as stated: when the write of the cache entry fails after the live search
\* returned, the query goes on with the result set the search returned.
C12_WriteFailureKeepsResults ==
    live = "write failed" => search_results.ok

\* C13: a bare-text query goes through the cached resolver when fast mode is
\* on and through the fallback resolver alone when it is off; with fast mode
\* off a query neither reads nor writes the cache; /fast flips the flag and
\* changes neither the cache nor the player, and nothing else changes the flag.
C13_FastModeRouting ==
    [][ /\ (pc = "prompt" /\ Moves /\ pc' # "exited" /\ ~IsCommand(q')) =>
             pc' = IF fast_mode THEN "lookup" ELSE "fallback"
        /\ pc \in {"lookup", "search", "choose", "extract"} => fast_mode
        /\ (~fast_mode /\ ~IsCommand(q)) =>
             /\ cache' = cache
             /\ url' # NoUrl => url' = DirectUrl(q)
             /\ player'.loaded # player.loaded => player'.loaded = DirectUrl(q)
        /\ (pc = "command" /\ Lower(q) = FastLine /\ Moves) =>
             /\ fast_mode' = ~fast_mode
             /\ cache' = cache
             /\ player' = player
             /\ pc' = "prompt"
        /\ fast_mode' # fast_mode => (pc = "command" /\ Lower(q) = FastLine)
      ]_vars

\* fast mode off: the fallback resolver's url about to be loaded while a fresh,
\* non-empty entry for the same text sits in the cache unread
C13_Witness ==
    /\ ~fast_mode
    /\ pc = "load"
    /\ url = DirectUrl(q)
    /\ Fresh(CurrentEntry, now)
    /\ CurrentEntry.results # << >>

IsVolumeLine(line) == StartsWith(Lower(line), VolumePrefix)

VolumeArg(line) == Split(Lower(line))[2]

OutOfRangeLine(line) ==
    IsVolumeLine(line) /\ IsInt(VolumeArg(line)) /\ ~InRange(IntOf(VolumeArg(line)))

\* C14: the volume is 60 until a command changes it; /volume N with an integer N outside 0..100
\* leaves the player as it was and the loop goes back to the prompt; the volume
\* changes only to the in-range argument of a /volume line, so it is within
\* 0..100 in every reachable state.
C14_VolumeStaysInRange ==
    [][ /\ out = "banner" => player.volume = InitialVolume
        /\ (pc = "command" /\ OutOfRangeLine(q) /\ Moves) =>
             /\ player' = player
             /\ pc' = "prompt"
        /\ player'.volume # player.volume =>
             /\ pc = "command"
             /\ IsVolumeLine(q)
             /\ IsInt(VolumeArg(q))
             /\ player'.volume = IntOf(VolumeArg(q))
        /\ InRange(player.volume)
        /\ InRange(player'.volume)
      ]_vars

\* back at the prompt after /volume 150, the volume still the 100 set before
C14_Witness ==
    /\ pc = "prompt"
    /\ OutOfRangeLine(q)
    /\ IntOf(VolumeArg(q)) > MaxVolume
    /\ player.volume = MaxVolume

\* C15 as stated: every invalid /volume argument, an integer outside 0..100 as
\* much as a word, gets the error message before the loop is back at the prompt.
C15_InvalidVolumeReported ==
    [][ (pc = "command" /\ IsVolumeLine(q) /\ Moves
           /\ (~IsInt(VolumeArg(q)) \/ OutOfRangeLine(q))) =>
             /\ out' = "use: /volume 0-100"
             /\ pc' = "prompt"
      ]_vars

\* C16: the loop ends only by /exit or /quit or by the keyboard interrupt
\* handler, and each of them has terminated the player and shut the pool down
\* when the loop ends; until then both are in service; a failed search,
\* extraction, cache write, cache removal or player command, and the handler
\* that follows it, never end the loop.
C16_LoopEndsOnlyOnExit ==
    [][ /\ (pc' = "exited" /\ pc # "exited") =>
             /\ \/ pc = "command" /\ Lower(q) \in {ExitLine, QuitLine}
                \/ out' = "exiting"
             /\ ~player'.alive
             /\ executor'.shutdown
        /\ pc = "exited" => (~player.alive /\ executor.shutdown /\ pc' = "exited")
        /\ pc # "exited" => (player.alive /\ ~executor.shutdown)
        /\ (pc \in {"except", "retryload"} \/ pc' = "except") => pc' # "exited"
        /\ (live' \in {"raised", "write failed"} \/ extract' = "raised") => pc' # "exited"
        /\ (pc = "command" /\ Lower(q) \notin {ExitLine, QuitLine}) => pc' # "exited"
      ]_vars

\* the loop ended by an interrupt while a stream was loaded
C16_Witness ==
    /\ pc = "exited"
    /\ out = "exiting"
    /\ player.loaded # NoUrl
    /\ ~player.alive
    /\ executor.shutdown

\* C17: within one query the cache lookup comes before the live search and
\* both before the extraction, the extraction has returned its url before the
\* load command is issued, and the player is only ever handed the url the
\* current query resolved to, never an unknown one.
C17_LookupThenExtractThenLoad ==
    [][ /\ (pc' = "search" /\ Moves) => pc = "lookup"
        /\ (pc' = "choose" /\ Moves) => pc \in {"lookup", "search"}
        /\ (pc' = "extract" /\ Moves) =>
             /\ pc = "choose"
             /\ search_results.ok
             /\ url = NoUrl
        /\ pc \in {"lookup", "search", "choose", "extract"} =>
             (url = NoUrl /\ extract = "none" /\ player' = player)
        /\ (pc' = "load" /\ Moves) =>
             /\ pc \in {"extract", "fallback"}
             /\ pc = "extract" => extract' # "none"
             /\ url' # NoUrl
        /\ pc \in {"load", "retryload"} => url # NoUrl
        /\ (player'.loaded # player.loaded /\ pc # "command") =>
             (player'.loaded = url /\ url # NoUrl)
      ]_vars

\* a query served from the cache, its extraction done, about to be loaded
C17_Witness ==
    /\ pc = "load"
    /\ live = "none"
    /\ search_results.ok
    /\ extract = "ok"
    /\ url.kind = "fmt"
    /\ url.video = video_id
    /\ player.loaded # url

\* C18: an exception that leaves the query attempt, a refused load command
\* after a successful resolution included, brings the handler, which calls the
\* fallback resolver once and, when that call returns, issues a second load
\* command with its url; when the call or the second load fails, "try another
\* search" is shown and the loop is back at the prompt, with no further retry.
C18_EscapedExceptionRetriedOnce ==
    [][ /\ (pc = "load" /\ Moves /\ pc' # "exited") =>
             \/ pc' = "prompt" /\ player'.loaded = url
             \/ pc' = "except" /\ player' = player /\ q' = q
        /\ (pc = "except" /\ Moves) =>
             \/ /\ pc' = "retryload"
                /\ url' = DirectUrl(q)
                /\ player' = player
             \/ /\ pc' = "prompt"
                /\ out' = "try another search"
                /\ player' = player
        /\ (pc = "retryload" /\ Moves) =>
             /\ pc' = "prompt"
             /\ \/ player'.loaded = url /\ out' = "playing (fallback)"
                \/ player' = player /\ out' = "try another search"
        /\ (pc' = "retryload" /\ Moves) => pc = "except"
        /\ (pc' = "except" /\ Moves) => pc \notin {"except", "retryload"}
      ]_vars

\* the fallback resolver answered, the load was refused, the handler's one
\* retry answered too, and the second load is about to be issued
C18_Witness ==
    /\ pc = "retryload"
    /\ fbLog = <<"ok", "ok">>
    /\ url = DirectUrl(q)
    /\ ~IsCommand(q)
    /\ player.loaded # url

\* C19: with an empty result set in hand, from the live search or from the
\* cache, the fast resolver takes no first candidate and calls the fallback
\* resolver; the empty set is written to the cache like any other, and until
\* it expires a lookup of the same text returns it without a live search.
C19_EmptyResultsDelegateAndStick ==
    [][ /\ (pc = "choose" /\ Moves /\ search_results = Some(<< >>)) =>
             /\ pc' = "fallback"
             /\ video_id' = ""
             /\ extract' = "none"
        /\ (pc' = "extract" /\ Moves) => search_results.items # << >>
        /\ (pc = "search" /\ search_results' = Some(<< >>)) =>
             cache'[get_cache_key(q)] = Entry(now, << >>, q)
        /\ (pc = "lookup" /\ Moves /\ CurrentEntry.kind = "valid"
               /\ CurrentEntry.results = << >> /\ Age(CurrentEntry) < TTL) =>
             /\ pc' = "choose"
             /\ search_results' = Some(<< >>)
             /\ cache' = cache
      ]_vars

\* the fallback resolver about to be called for an empty result set that came
\* out of the cache at a later time than it was stored
C19_Witness ==
    /\ pc = "fallback"
    /\ fast_mode
    /\ live = "none"
    /\ search_results = Some(<< >>)
    /\ CurrentEntry.kind = "valid"
    /\ CurrentEntry.results = << >>
    /\ CurrentEntry.timestamp < now

\* C20 as stated: a line that starts with '/' is handled as a command only;
\* even when the command's own action fails, no search runs for it, the
\* fallback resolver is not called with it, and no url resolved from the
\* command text is handed to the player.
C20_CommandNeverSearched ==
    /\ IsCommand(q) =>
         /\ pc \notin {"lookup", "search", "choose", "extract", "fallback", "load", "retryload"}
         /\ fbLog = << >>
         /\ url = NoUrl
    /\ player.loaded.kind = "direct" => ~IsCommand(player.loaded.query)

====
